---- MODULE Spec2Model ----
(***************************************************************************)
(* FilterExpressionParser (GSF TimeSeriesPlatformLibrary): the parser      *)
(* object, its setters and Evaluate(), modelled as a state machine.        *)
(*                                                                         *)
(* Encoding of values: a Nullable<T> is an integer, Null when it has no    *)
(* value; a GUID is a natural number, EmptyGuid being the all-zeros GUID;  *)
(* a string (measurement key, point tag) is a natural number standing for  *)
(* its case-folded text; a Boolean payload is 1 (true) or 0 (false).       *)
(* A row pointer is a record [table, index]; rows with equal cells at      *)
(* different indexes are different rows.                                   *)
(***************************************************************************)
EXTENDS Integers, Sequences, FiniteSets, TLC

\* ------------------------------------------------------------------ bounds
MaxRows == 2
MaxStmts == 2
MaxTop == 2

\* --------------------------------------------------------------- constants
Null == -1
EmptyGuid == 0
NoTopLimit == -1
Int32MaxValue == 2147483647

PrimaryDefault == "ActiveMeasurements"
TableNames == {"ActiveMeasurements", "Other"}
ColumnNames == {"SignalID", "ID", "PointTag", "Flag", "Num"}

\* DataColumn::Type() of the columns of the modelled tables.
ColumnType(c) ==
    CASE c = "SignalID" -> "Guid"
      [] c = "ID" -> "String"
      [] c = "PointTag" -> "String"
      [] c = "Flag" -> "Boolean"
      [] c = "Num" -> "Int32"
      [] OTHER -> "Unknown"

\* The ID fields record the constructor registers for the primary table.
DefaultIDFields ==
    [SignalIDFieldName |-> "SignalID",
     MeasurementKeyFieldName |-> "ID",
     PointTagFieldName |-> "PointTag"]

\* ------------------------------------------------------------ data model
DataRow(sid, id, tag, flag, num) ==
    [nil |-> FALSE, SignalID |-> sid, ID |-> id, PointTag |-> tag,
     Flag |-> flag, Num |-> num]

\* A null DataRowPtr stored in a table.
NilRow ==
    [nil |-> TRUE, SignalID |-> Null, ID |-> Null, PointTag |-> Null,
     Flag |-> Null, Num |-> Null]

DataTable(name, cols, rows) == [name |-> name, cols |-> cols, rows |-> rows]

RowRef(t, i) == [table |-> t, index |-> i]

HasValue(x) == x # Null

Range(s) == {s[i] : i \in DOMAIN s}

SeqsUpTo(S, n) == UNION {[1..k -> S] : k \in 0..n}

\* ------------------------------------------------------------ parse tree
\* A parse-tree node of the WHERE expression: rule, token kind, the token's
\* number or name, and the children.
Ctx(rule, token, num, name, children) ==
    [rule |-> rule, token |-> token, num |-> num, name |-> name,
     children |-> children]

NullLiteral == Ctx("literalValue", "K_NULL", 0, "", <<>>)
BooleanLiteral(b) == Ctx("literalValue", "BOOLEAN_LITERAL", b, "", <<>>)
IntegerLiteral(v) == Ctx("literalValue", "INTEGER_LITERAL", v, "", <<>>)
\* The INTEGER literal whose value is base + offset, base one of the named
\* powers of two.
LargeIntegerLiteral(base, offset) ==
    Ctx("literalValue", "INTEGER_LITERAL", offset, base, <<>>)
ColumnName(c) == Ctx("columnName", "IDENTIFIER", 0, c, <<>>)
FunctionCall(f, args) == Ctx("functionExpression", "functionName", 0, f, args)

\* Statements of the filter text.
FilterStatement(table, top, where, orderBy) ==
    [kind |-> "filterStatement", keyword |-> "FILTER", table |-> table,
     top |-> top, where |-> where, orderBy |-> orderBy, literal |-> 0]

IdentifierStatement(token, literal) ==
    [kind |-> token, keyword |-> "", table |-> "", top |-> NoTopLimit,
     where |-> NullLiteral, orderBy |-> <<>>, literal |-> literal]

\* A text that is a bare expression, as the static entry points accept it.
ExpressionText(where) ==
    <<[kind |-> "expression", keyword |-> "", table |-> "", top |-> NoTopLimit,
       where |-> where, orderBy |-> <<>>, literal |-> 0]>>

\* The text  word + " " + tableName + " WHERE " + an expression text: the
\* grammar's filterStatement when the word is the keyword FILTER, otherwise
\* text that no statement rule of the grammar matches.
PrefixedText(word, tableName, filterText) ==
    <<[kind |-> IF word = "FILTER" THEN "filterStatement" ELSE "unmatched",
       keyword |-> word, table |-> tableName, top |-> NoTopLimit,
       where |-> filterText[1].where, orderBy |-> <<>>, literal |-> 0]>>

\* StartsWith(filterExpression, "FILTER ")
StartsWithFilter(filterText) ==
    filterText # <<>> /\ filterText[1].keyword = "FILTER"

OrderingTerm(c, desc) == [column |-> c, K_DESC |-> desc]

\* ------------------------------------------------------------ expressions
Expr(kind, type, val, col, args) ==
    [kind |-> kind, type |-> type, val |-> val, col |-> col, args |-> args]

ValueExpression(t, v) == [ValueType |-> t, val |-> v]

\* An integer or a double with an integral value, written base + off; the
\* base "" is 0 and the offsets stay far below the distance between bases.
Number(base, off) == [base |-> base, off |-> off]

Exponent(base) ==
    CASE base = "" -> 0
      [] base = "2^31" -> 31
      [] base = "2^53" -> 53
      [] base = "2^63" -> 63

Greater(a, b) ==
    \/ Exponent(a.base) > Exponent(b.base)
    \/ Exponent(a.base) = Exponent(b.base) /\ a.off > b.off

Int32Max == Number("", Int32MaxValue)

Int64Max == Number("2^63", -1)

\* d rounded to a multiple of ulp, ties to the even multiple.
RoundHalfEven(d, ulp) ==
    LET q == d \div ulp
        r == d - q * ulp
    IN  IF 2 * r < ulp THEN q * ulp
        ELSE IF 2 * r > ulp THEN (q + 1) * ulp
        ELSE IF q % 2 = 0 THEN q * ulp ELSE (q + 1) * ulp

\* The double nearest to an integer (stod of its digits, and the conversion
\* of an integer operand compared with a double): a double has 53
\* significant bits, so from 2^53 on the doubles are 2^(e-52) apart in
\* [2^e, 2^(e+1)).
ToDouble(v) ==
    LET e == Exponent(v.base)
    IN  IF e < 53 \/ (e = 53 /\ v.off <= 0) THEN v
        ELSE Number(v.base,
                    RoundHalfEven(v.off, IF v.off < 0 THEN 2 ^ (e - 53)
                                                      ELSE 2 ^ (e - 52)))

\* The result of a conversion whose behaviour is undefined: it stands for
\* whichever value the build produces, and equals no particular number.
Indeterminate == Number("indeterminate", 0)

\* static_cast<int64_t>(value) of a double with an integral value: the
\* value itself when an int64_t can hold it, undefined otherwise.
CastToInt64(value) ==
    IF Greater(value, Int64Max) THEN Indeterminate ELSE value

\* exitLiteralValue: the Literal a literalValue node is lowered to.
ExitLiteralValue(ctx) ==
    CASE ctx.token = "INTEGER_LITERAL" ->
            LET value == ToDouble(Number(ctx.name, ctx.num))
            IN  IF Greater(value, ToDouble(Int64Max))
                THEN Expr("Literal", "Double", value, "", <<>>)
                ELSE IF Greater(value, ToDouble(Int32Max))
                THEN Expr("Literal", "Int64", CastToInt64(value), "", <<>>)
                ELSE Expr("Literal", "Int32", value.off, "", <<>>)
      [] ctx.token = "BOOLEAN_LITERAL" ->
            Expr("Literal", "Boolean", IF ctx.num = 1 THEN 1 ELSE 0, "", <<>>)
      [] ctx.token = "K_NULL" ->
            Expr("Literal", "Undefined", Null, "", <<>>)

\* exitFunctionExpression: the function type a function name maps to.
FunctionType(name) ==
    CASE name \in {"COALESCE", "ISNULL"} -> "Coalesce"
      [] name = "CONVERT" -> "Convert"
      [] name = "IIF" -> "IIf"
      [] name = "ISREGEXMATCH" -> "IsRegExMatch"
      [] name = "LEN" -> "Len"
      [] name = "REGEXVAL" -> "RegExVal"
      [] name \in {"SUBSTR", "SUBSTRING"} -> "SubString"
      [] name = "TRIM" -> "Trim"
      [] OTHER -> "Unexpected"

\* The columns a WHERE expression names that the table does not have
\* (exitColumnName raises for the first one the walk meets).
RECURSIVE UnresolvedColumns(_, _)
UnresolvedColumns(ctx, cols) ==
    IF ctx.rule = "columnName"
    THEN IF ctx.name \in cols THEN {} ELSE {ctx.name}
    ELSE UNION {UnresolvedColumns(ctx.children[i], cols) :
                    i \in DOMAIN ctx.children}

\* The bottom-up walk of a WHERE expression: the expression of its top node,
\* which is the last one AddExpr stores in the active tree's Root.
RECURSIVE BuildExpression(_)
BuildExpression(ctx) ==
    CASE ctx.rule = "literalValue" -> ExitLiteralValue(ctx)
      [] ctx.rule = "columnName" -> Expr("Column", "", Null, ctx.name, <<>>)
      [] ctx.rule = "functionExpression" ->
            Expr(FunctionType(ctx.name), "", Null, "",
                 [i \in DOMAIN ctx.children |-> BuildExpression(ctx.children[i])])

\* The concatenation of f[1], ..., f[n], each a sequence.
RECURSIVE Concat(_, _)
Concat(f, n) == IF n = 0 THEN <<>> ELSE Concat(f, n - 1) \o f[n]

\* Faulty variant: a node's expression is stored before those of its children.
RECURSIVE AddExprCalls_ParentFirst(_)
AddExprCalls_ParentFirst(ctx) ==
    <<BuildExpression(ctx)>>
       \o Concat([i \in DOMAIN ctx.children |->
                     AddExprCalls_ParentFirst(ctx.children[i])],
                 Len(ctx.children))

\* The expressions AddExpr receives during the walk of a WHERE expression,
\* in call order: a node exits after its children. Each call overwrites the
\* active tree's Root.
RECURSIVE AddExprCalls(_)
AddExprCalls(ctx) ==
    Concat([i \in DOMAIN ctx.children |-> AddExprCalls(ctx.children[i])],
           Len(ctx.children))
       \o <<BuildExpression(ctx)>>

\* What the exits of the nodes of a WHERE expression raise, in exit order:
\* an unknown column, an unknown function name, and the read through the
\* null expressionList of a function call without arguments.
RECURSIVE ExitErrors(_, _)
ExitErrors(ctx, cols) ==
    Concat([i \in DOMAIN ctx.children |-> ExitErrors(ctx.children[i], cols)],
           Len(ctx.children))
       \o (CASE ctx.rule = "columnName" ->
                    IF UnresolvedColumns(ctx, cols) # {}
                    THEN <<"ColumnNotFound">> ELSE <<>>
              [] ctx.rule = "functionExpression" ->
                    IF FunctionType(ctx.name) = "Unexpected"
                    THEN <<"UnexpectedFunction">>
                    ELSE IF ctx.children = <<>>
                    THEN <<"NullDereference">> ELSE <<>>
              [] OTHER -> <<>>)

\* The AddExpr calls made before the first exit that raises: those of the
\* children that exit cleanly, then those of the first child that does not;
\* a node whose own exit raises has stored nothing for itself.
RECURSIVE AddExprCallsUntilError(_, _)
AddExprCallsUntilError(ctx, cols) ==
    IF ExitErrors(ctx, cols) = <<>> THEN AddExprCalls(ctx)
    ELSE LET failing == {i \in DOMAIN ctx.children :
                            ExitErrors(ctx.children[i], cols) # <<>>}
             first == IF failing = {} THEN Len(ctx.children) + 1
                      ELSE CHOOSE i \in failing : \A j \in failing : i <= j
         IN  Concat([i \in DOMAIN ctx.children |-> AddExprCalls(ctx.children[i])],
                    first - 1)
                \o (IF failing = {} THEN <<>>
                    ELSE AddExprCallsUntilError(ctx.children[first], cols))

\* The object behind an expression pointer: the constants of ExpressionTree
\* for the literals true, false and NULL, otherwise a node allocated during
\* the walk of the tree-th FILTER statement.
ExpressionObject(ctx, tree) ==
    CASE ctx.token = "BOOLEAN_LITERAL" ->
            [constant |-> IF ctx.num = 1 THEN "ExpressionTree::True"
                                         ELSE "ExpressionTree::False",
             tree |-> 0]
      [] ctx.token = "K_NULL" ->
            [constant |-> "ExpressionTree::NullValue", tree |-> 0]
      [] OTHER -> [constant |-> "", tree |-> tree]

\* ExpressionTree::Evaluate(row): the value of the tree's root on a row.
RECURSIVE EvaluateExpression(_, _)
EvaluateExpression(expr, row) ==
    CASE expr.kind = "Literal" -> ValueExpression(expr.type, expr.val)
      [] expr.kind = "Column" ->
            ValueExpression(ColumnType(expr.col), row[expr.col])
      [] expr.kind = "IIf" ->
            LET test == EvaluateExpression(expr.args[1], row)
            IN  IF test.val = 1
                THEN EvaluateExpression(expr.args[2], row)
                ELSE EvaluateExpression(expr.args[3], row)

\* ValueExpression::ValueAsBoolean(): a null reads as false.
ValueAsBoolean(v) == v.val = 1

\* ------------------------------------------------------------ parser state
VARIABLES
    filterExpression,                \* the statements of m_inputStream
    dataSet,                         \* the caller's DataSet: table name -> table
    m_dataSet,                       \* "nullptr" or "dataSet"
    m_trackFilteredSignalIDs,
    m_trackFilteredRows,
    m_primaryMeasurementTableName,
    m_measurementTableIDFields,      \* table name -> ID fields record
    m_filteredSignalIDs,
    m_filteredSignalIDSet,
    m_filteredRows,
    m_expressionTrees,
    m_expressions,                   \* the expressions AddExpr stored, in call order
    parsed,                          \* m_parser has consumed its token stream
    scanned,                         \* rows handed to ExpressionTree::Evaluate by the last Evaluate()
    lastCall,                        \* "Construct", "Set" or "Evaluate"
    lastError                        \* what the last call raised, "none" if nothing

vars ==
    <<filterExpression, dataSet, m_dataSet, m_trackFilteredSignalIDs,
      m_trackFilteredRows, m_primaryMeasurementTableName,
      m_measurementTableIDFields, m_filteredSignalIDs, m_filteredSignalIDSet,
      m_filteredRows, m_expressionTrees, m_expressions, parsed, scanned,
      lastCall, lastError>>

\* The parser object as Evaluate() sees it on entry, accumulators cleared.
Parser(ds, trackIDs, trackRows, primary, idFields) ==
    [dataSet |-> ds, trackIDs |-> trackIDs, trackRows |-> trackRows,
     primary |-> primary, idFields |-> idFields,
     ids |-> <<>>, idset |-> {}, rows |-> <<>>, trees |-> <<>>,
     expressions |-> <<>>, scanned |-> <<>>, error |-> "none"]

Throw(p, e) == [p EXCEPT !.error = e]

\* ---------------------------------------------------------- MapMeasurement
\* A signal ID that is not the empty GUID and is new to m_filteredSignalIDSet
\* (the insert succeeds).
MapInsertsSignalID(sid, idset) == sid # EmptyGuid /\ sid \notin idset

RECURSIVE MapMeasurementRows(_, _, _, _, _, _)
MapMeasurementRows(p, measurements, signalIDColumn, column, mappingValue, i) ==
    IF i > Len(measurements.rows) THEN p
    ELSE
      LET row == measurements.rows[i]
          next(q) == MapMeasurementRows(q, measurements, signalIDColumn,
                                        column, mappingValue, i + 1)
      IN  IF (~row.nil) /\ HasValue(row[column]) /\ row[column] = mappingValue
          THEN IF p.trackIDs
               THEN IF HasValue(row[signalIDColumn])
                       /\ MapInsertsSignalID(row[signalIDColumn], p.idset)
                    THEN \* push and return
                         [p EXCEPT
                            !.idset = @ \cup {row[signalIDColumn]},
                            !.ids = Append(@, row[signalIDColumn]),
                            !.rows = IF p.trackRows
                                     THEN Append(@, RowRef(measurements.name, i))
                                     ELSE @]
                    ELSE next(p)
               ELSE IF p.trackRows
                    THEN next([p EXCEPT
                                 !.rows = Append(@, RowRef(measurements.name, i))])
                    ELSE next(p)
          ELSE next(p)

MapMeasurement(p, measurements, signalIDColumn, columnName, mappingValue) ==
    IF columnName \notin measurements.cols
    THEN p
    ELSE MapMeasurementRows(p, measurements, signalIDColumn, columnName,
                            mappingValue, 1)

\* --------------------------------------------------- exitIdentifierStatement
\* The GUID literal branch: the signal ID is recorded when tracking signal IDs.
GuidLiteralInserts(p, signalID) ==
    p.trackIDs /\ signalID # EmptyGuid /\ signalID \notin p.idset

\* The first row of the table whose signal ID equals signalID, 0 if none.
FirstRowWithSignalID(measurements, signalIDColumn, signalID) ==
    LET hits == {i \in DOMAIN measurements.rows :
                    /\ ~measurements.rows[i].nil
                    /\ HasValue(measurements.rows[i][signalIDColumn])
                    /\ measurements.rows[i][signalIDColumn] = signalID}
    IN  IF hits = {} THEN 0 ELSE CHOOSE i \in hits : \A j \in hits : i <= j

ExitIdentifierStatement(p, stmt) ==
    LET isGuid == stmt.kind = "GUID_LITERAL"
        signalID == IF isGuid THEN stmt.literal ELSE EmptyGuid
        p1 == IF isGuid /\ GuidLiteralInserts(p, signalID)
              THEN [p EXCEPT !.idset = @ \cup {signalID},
                             !.ids = Append(@, signalID)]
              ELSE p
    IN  IF isGuid /\ ~p.trackRows THEN p1
        ELSE IF p.primary \notin DOMAIN p.dataSet THEN p1
        ELSE IF p.primary \notin DOMAIN p.idFields THEN p1
        ELSE
          LET measurements == p.dataSet[p.primary]
              fields == p.idFields[p.primary]
              signalIDColumn == fields.SignalIDFieldName
          IN  IF signalIDColumn \notin measurements.cols THEN p1
              ELSE IF p.trackRows /\ signalID # EmptyGuid
              THEN LET i == FirstRowWithSignalID(measurements, signalIDColumn,
                                                 signalID)
                   IN  IF i = 0 THEN p1
                       ELSE [p1 EXCEPT
                               !.rows = Append(@, RowRef(measurements.name, i))]
              ELSE IF stmt.kind = "MEASUREMENT_KEY_LITERAL"
              THEN MapMeasurement(p1, measurements, signalIDColumn,
                                  fields.MeasurementKeyFieldName, stmt.literal)
              ELSE IF stmt.kind = "POINT_TAG_LITERAL"
              THEN MapMeasurement(p1, measurements, signalIDColumn,
                                  fields.PointTagFieldName, stmt.literal)
              ELSE p1

\* ------------------------------------------------------ enterFilterStatement
NoExpression == Expr("nullptr", "", Null, "", <<>>)

NoObject == [constant |-> "nullptr", tree |-> 0]

ExpressionTree(table, root, top, terms) ==
    [table |-> table, Root |-> root, RootObject |-> NoObject,
     TopLimit |-> top, OrderByTerms |-> terms]

\* The ordering terms resolved before the first unknown ORDER BY column.
RECURSIVE ResolvedOrderByTerms(_, _, _)
ResolvedOrderByTerms(orderBy, cols, i) ==
    IF i > Len(orderBy) \/ orderBy[i].column \notin cols THEN <<>>
    ELSE <<[column |-> orderBy[i].column, ascending |-> ~orderBy[i].K_DESC]>>
         \o ResolvedOrderByTerms(orderBy, cols, i + 1)

\* enterFilterStatement and the walk of the statement's WHERE expression.
WalkFilterStatement(p, stmt) ==
    IF stmt.table \notin DOMAIN p.dataSet
    THEN Throw([p EXCEPT !.expressions = <<>>], "TableNotFound")
    ELSE
      LET measurements == p.dataSet[stmt.table]
          terms == ResolvedOrderByTerms(stmt.orderBy, measurements.cols, 1)
          entered == ExpressionTree(stmt.table, NoExpression, stmt.top, terms)
      IN  IF Len(terms) < Len(stmt.orderBy)
          THEN Throw([p EXCEPT !.expressions = <<>>,
                               !.trees = Append(@, entered)],
                     "OrderByFieldNotFound")
          ELSE IF ExitErrors(stmt.where, measurements.cols) # <<>>
          THEN Throw([p EXCEPT
                        !.expressions =
                            AddExprCallsUntilError(stmt.where, measurements.cols),
                        !.trees = Append(@, entered)],
                     Head(ExitErrors(stmt.where, measurements.cols)))
          ELSE [p EXCEPT
                  !.expressions = AddExprCalls(stmt.where),
                  !.trees =
                    Append(@, [entered EXCEPT
                       !.Root = AddExprCalls(stmt.where)[Len(AddExprCalls(stmt.where))],
                       !.RootObject = ExpressionObject(stmt.where, Len(p.trees) + 1)])]

\* Text that the grammar does not accept as a statement is a parser error.
MalformedStatement(stmt) == stmt.kind = "unmatched"

\* walker.walk(this, parseTree): the listener calls, statement by statement.
RECURSIVE WalkStatements(_, _, _)
WalkStatements(p, stmts, k) ==
    IF k > Len(stmts) \/ p.error # "none" THEN p
    ELSE WalkStatements(
            IF MalformedStatement(stmts[k])
            THEN Throw(p, "SyntaxError")
            ELSE IF stmts[k].kind = "filterStatement"
            THEN WalkFilterStatement(p, stmts[k])
            ELSE ExitIdentifierStatement(p, stmts[k]),
            stmts, k + 1)

\* ------------------------------------------------------ Evaluate: row scan
\* Faulty variant: the TOP test lets one row too many through.
TopLimitReached_OffByOne(topLimit, matchedRows) ==
    topLimit > -1 /\ Len(matchedRows) > topLimit

\* The TOP test at the head of the row loop.
TopLimitReached(topLimit, matchedRows) ==
    topLimit > -1 /\ Len(matchedRows) >= topLimit

\* Faulty variant: the row scan forgets the set insert's result.
FilterInsertsSignalID_NoSetCheck(sid, idset) == sid # EmptyGuid

\* A signal ID that is not the empty GUID and is new to m_filteredSignalIDSet.
FilterInsertsSignalID(sid, idset) == sid # EmptyGuid /\ sid \notin idset

\* Faulty variant: the value type of the final expression is not checked.
IsBooleanResult_Unchecked(result) == TRUE

\* The final expression must have the Boolean value type.
IsBooleanResult(result) == result.ValueType = "Boolean"

\* Faulty variant: a matched row is put in front of the earlier ones.
PushMatchedRow_Front(matchedRows, y) == <<y>> \o matchedRows

PushMatchedRow(matchedRows, y) == Append(matchedRows, y)

\* Faulty variant: every row on which the predicate is true counts toward
\* the TOP limit, whether or not its signal ID is taken.
RECURSIVE ScanRows_CountsSkippedRows(_, _, _, _, _, _)
ScanRows_CountsSkippedRows(p, x, measurements, signalIDColumn, y, matchedRows) ==
    LET tree == p.trees[x]
        done == [p |-> p, matchedRows |-> matchedRows]
        counted == {i \in 1..(y - 1) :
                       /\ i <= Len(measurements.rows)
                       /\ ~measurements.rows[i].nil
                       /\ ValueAsBoolean(EvaluateExpression(
                              tree.Root, measurements.rows[i]))}
    IN
    IF y > Len(measurements.rows) THEN done
    ELSE IF tree.TopLimit > -1 /\ Cardinality(counted) >= tree.TopLimit
    THEN done
    ELSE
      LET row == measurements.rows[y]
          next(q, m) == ScanRows_CountsSkippedRows(q, x, measurements,
                                                  signalIDColumn, y + 1, m)
      IN  IF row.nil THEN next(p, matchedRows)
          ELSE
            LET result == EvaluateExpression(tree.Root, row)
                p1 == [p EXCEPT !.scanned = Append(@, [tree |-> x, index |-> y])]
            IN  IF ~IsBooleanResult(result)
                THEN [p |-> Throw(p1, "NotBoolean"), matchedRows |-> matchedRows]
                ELSE IF ~ValueAsBoolean(result) THEN next(p1, matchedRows)
                ELSE IF ~p.trackIDs
                THEN next(p1, PushMatchedRow(matchedRows, y))
                ELSE IF HasValue(row[signalIDColumn])
                        /\ FilterInsertsSignalID(row[signalIDColumn], p1.idset)
                THEN next([p1 EXCEPT !.idset = @ \cup {row[signalIDColumn]}],
                          PushMatchedRow(matchedRows, y))
                ELSE next(p1, matchedRows)

\* The row loop of tree x from row y on: the parser and the matched rows.
RECURSIVE ScanRows(_, _, _, _, _, _)
ScanRows(p, x, measurements, signalIDColumn, y, matchedRows) ==
    LET tree == p.trees[x]
        done == [p |-> p, matchedRows |-> matchedRows]
    IN
    IF y > Len(measurements.rows) THEN done
    ELSE IF TopLimitReached(tree.TopLimit, matchedRows) THEN done
    ELSE
      LET row == measurements.rows[y]
      IN  IF row.nil
          THEN ScanRows(p, x, measurements, signalIDColumn, y + 1, matchedRows)
          ELSE
            LET result == EvaluateExpression(tree.Root, row)
                p1 == [p EXCEPT !.scanned = Append(@, [tree |-> x, index |-> y])]
            IN  IF ~IsBooleanResult(result)
                THEN [p |-> Throw(p1, "NotBoolean"), matchedRows |-> matchedRows]
                ELSE IF ValueAsBoolean(result)
                THEN IF p.trackIDs
                     THEN IF HasValue(row[signalIDColumn])
                             /\ FilterInsertsSignalID(row[signalIDColumn], p1.idset)
                          THEN ScanRows(
                                 [p1 EXCEPT !.idset = @ \cup {row[signalIDColumn]}],
                                 x, measurements, signalIDColumn, y + 1,
                                 PushMatchedRow(matchedRows, y))
                          ELSE ScanRows(p1, x, measurements, signalIDColumn,
                                        y + 1, matchedRows)
                     ELSE ScanRows(p1, x, measurements, signalIDColumn, y + 1,
                                   PushMatchedRow(matchedRows, y))
                ELSE ScanRows(p1, x, measurements, signalIDColumn, y + 1,
                              matchedRows)

\* ---------------------------------------------------------- Evaluate: sort
\* Faulty variant: a null orders after every value.
CompareValues_NullLast(leftNullable, rightNullable) ==
    IF HasValue(leftNullable) /\ HasValue(rightNullable)
    THEN IF leftNullable < rightNullable THEN -1
         ELSE IF leftNullable > rightNullable THEN 1 ELSE 0
    ELSE IF ~HasValue(leftNullable) /\ ~HasValue(rightNullable) THEN 0
    ELSE IF HasValue(leftNullable) THEN -1 ELSE 1

CompareValues(leftNullable, rightNullable) ==
    IF HasValue(leftNullable) /\ HasValue(rightNullable)
    THEN IF leftNullable < rightNullable THEN -1
         ELSE IF leftNullable > rightNullable THEN 1 ELSE 0
    ELSE IF ~HasValue(leftNullable) /\ ~HasValue(rightNullable) THEN 0
    ELSE IF HasValue(leftNullable) THEN 1 ELSE -1

\* The comparison result of one order-by term for the two matched rows.
TermResult(term, leftMatchedRow, rightMatchedRow) ==
    LET leftRow == IF term.ascending THEN leftMatchedRow ELSE rightMatchedRow
        rightRow == IF term.ascending THEN rightMatchedRow ELSE leftMatchedRow
    IN  CompareValues(leftRow[term.column], rightRow[term.column])

\* The lambda handed to std::sort: whether left orders before right.
RECURSIVE RowLess(_, _, _, _)
RowLess(terms, i, leftMatchedRow, rightMatchedRow) ==
    IF i > Len(terms) THEN FALSE
    ELSE LET result == TermResult(terms[i], leftMatchedRow, rightMatchedRow)
         IN  IF result < 0 THEN TRUE
             ELSE IF result > 0 THEN FALSE
             ELSE RowLess(terms, i + 1, leftMatchedRow, rightMatchedRow)

Orderings(s) ==
    {[i \in DOMAIN s |-> s[f[i]]] :
        f \in {g \in [DOMAIN s -> DOMAIN s] :
                  \A a, b \in DOMAIN s : a # b => g[a] # g[b]}}

\* std::sort(matchedRows, comparer): the result is ordered by the comparer;
\* the order of rows that compare equal is not specified.
SortOutcomes(matchedRows, terms, measurements) ==
    {s \in Orderings(matchedRows) :
        \A i, j \in DOMAIN s :
            i < j => ~RowLess(terms, 1, measurements.rows[s[j]],
                              measurements.rows[s[i]])}

\* The closing loop: the matched rows go to the accumulators in final order.
RECURSIVE AppendMatchedRows(_, _, _, _, _)
AppendMatchedRows(p, measurements, signalIDColumn, matchedRows, i) ==
    IF i > Len(matchedRows) THEN p
    ELSE AppendMatchedRows(
            [p EXCEPT
               !.ids = IF p.trackIDs
                       THEN Append(@, measurements.rows[matchedRows[i]][signalIDColumn])
                       ELSE @,
               !.rows = IF p.trackRows
                        THEN Append(@, RowRef(measurements.name, matchedRows[i]))
                        ELSE @],
            measurements, signalIDColumn, matchedRows, i + 1)

\* Faulty variant: the signal-ID column is resolved whatever the tracking mode.
IDFieldsRequired_Always(p) == TRUE

\* The signal-ID column of a tree's table is resolved only when signal IDs
\* are tracked.
IDFieldsRequired(p) == p.trackIDs

\* One pass of the loop over m_expressionTrees: every state it can end in.
ExecuteTree(p, x) ==
    LET tree == p.trees[x]
        measurements == p.dataSet[tree.table]
    IN  IF IDFieldsRequired(p) /\ measurements.name \notin DOMAIN p.idFields
        THEN {Throw(p, "NoIDFields")}
        ELSE IF IDFieldsRequired(p)
                /\ p.idFields[measurements.name].SignalIDFieldName
                      \notin measurements.cols
        THEN {Throw(p, "NoSignalIDField")}
        ELSE
          LET signalIDColumn ==
                  IF p.trackIDs
                  THEN p.idFields[measurements.name].SignalIDFieldName
                  ELSE "SignalID"
              scan == ScanRows(p, x, measurements, signalIDColumn, 1, <<>>)
          IN  IF scan.p.error # "none" THEN {scan.p}
              ELSE IF scan.matchedRows = <<>> THEN {scan.p}
              ELSE {AppendMatchedRows(scan.p, measurements, signalIDColumn, s, 1) :
                       s \in IF tree.OrderByTerms # <<>>
                             THEN SortOutcomes(scan.matchedRows,
                                               tree.OrderByTerms, measurements)
                             ELSE {scan.matchedRows}}

RECURSIVE ExecuteTrees(_, _)
ExecuteTrees(p, x) ==
    IF x > Len(p.trees) \/ p.error # "none" THEN {p}
    ELSE UNION {ExecuteTrees(q, x + 1) : q \in ExecuteTree(p, x)}

\* m_parser->parse(): the statements of the text on the first call; the
\* token stream is at its end afterwards and a later parse finds none.
ParseTree(text, consumed) == IF consumed THEN <<>> ELSE text

\* Faulty variant: the trees built before a failed walk are executed before
\* the failure is reported.
EvaluateOutcomes_ExecutesBeforeWalkEnds(p, parseTree) ==
    LET w == WalkStatements(p, parseTree, 1)
        built == IF w.error \in {"OrderByFieldNotFound", "ColumnNotFound"}
                 THEN SubSeq(w.trees, 1, Len(w.trees) - 1)
                 ELSE w.trees
    IN  {IF w.error # "none" THEN Throw(q, w.error) ELSE q :
            q \in ExecuteTrees([w EXCEPT !.error = "none", !.trees = built], 1)}

\* Faulty variant: the FILTER statements are executed first and the
\* identifier statements are resolved after them.
EvaluateOutcomes_FiltersFirst(p, parseTree) ==
    LET IsFilter(stmt) == stmt.kind = "filterStatement"
        IsIdentifier(stmt) == stmt.kind # "filterStatement"
    IN  {WalkStatements(q, SelectSeq(parseTree, IsIdentifier), 1) :
            q \in ExecuteTrees(
                     WalkStatements(p, SelectSeq(parseTree, IsFilter), 1), 1)}

\* Evaluate() past the dataset check: every state the call can end in.
EvaluateOutcomes(p, parseTree) ==
    ExecuteTrees(WalkStatements(p, parseTree, 1), 1)

\* ----------------------------------------------------------------- actions
Accumulators ==
    <<m_filteredSignalIDs, m_filteredSignalIDSet, m_filteredRows,
      m_expressionTrees, m_expressions, parsed, scanned>>

Settings ==
    <<m_dataSet, m_trackFilteredSignalIDs, m_trackFilteredRows,
      m_primaryMeasurementTableName, m_measurementTableIDFields>>

SetDataSet ==
    \E d \in {"nullptr", "dataSet"} :
        /\ m_dataSet' = d
        /\ lastCall' = "Set" /\ lastError' = "none"
        /\ UNCHANGED <<filterExpression, dataSet, m_trackFilteredSignalIDs,
                       m_trackFilteredRows, m_primaryMeasurementTableName,
                       m_measurementTableIDFields, Accumulators>>

SetTrackFilteredSignalIDs ==
    \E b \in BOOLEAN :
        /\ m_trackFilteredSignalIDs' = b
        /\ lastCall' = "Set" /\ lastError' = "none"
        /\ UNCHANGED <<filterExpression, dataSet, m_dataSet,
                       m_trackFilteredRows, m_primaryMeasurementTableName,
                       m_measurementTableIDFields, Accumulators>>

SetTrackFilteredRows ==
    \E b \in BOOLEAN :
        /\ m_trackFilteredRows' = b
        /\ lastCall' = "Set" /\ lastError' = "none"
        /\ UNCHANGED <<filterExpression, dataSet, m_dataSet,
                       m_trackFilteredSignalIDs, m_primaryMeasurementTableName,
                       m_measurementTableIDFields, Accumulators>>

\* Faulty variant: the new primary table gets the standard ID fields too.
SetPrimaryMeasurementTableName_CarriesDefault ==
    \E n \in TableNames :
        /\ m_primaryMeasurementTableName' = n
        /\ m_measurementTableIDFields' =
              [k \in DOMAIN m_measurementTableIDFields \cup {n} |->
                  IF k = n THEN DefaultIDFields ELSE m_measurementTableIDFields[k]]
        /\ lastCall' = "Set" /\ lastError' = "none"
        /\ UNCHANGED <<filterExpression, dataSet, m_dataSet,
                       m_trackFilteredSignalIDs, m_trackFilteredRows,
                       Accumulators>>

SetPrimaryMeasurementTableName ==
    \E n \in TableNames :
        /\ m_primaryMeasurementTableName' = n
        /\ lastCall' = "Set" /\ lastError' = "none"
        /\ UNCHANGED <<filterExpression, dataSet, m_dataSet,
                       m_trackFilteredSignalIDs, m_trackFilteredRows,
                       m_measurementTableIDFields, Accumulators>>

\* insert_or_assign on the table name.
InsertOrAssign(map, key, value) ==
    [k \in DOMAIN map \cup {key} |-> IF k = key THEN value ELSE map[k]]

\* SetMeasurementTableIDFields called with one of the given table names and
\* one of the given records.
AssignIDFields(names, records) ==
    \E n \in names, f \in records :
        /\ m_measurementTableIDFields' =
              InsertOrAssign(m_measurementTableIDFields, n, f)
        /\ lastCall' = "Set" /\ lastError' = "none"
        /\ UNCHANGED <<filterExpression, dataSet, m_dataSet,
                       m_trackFilteredSignalIDs, m_trackFilteredRows,
                       m_primaryMeasurementTableName, Accumulators>>

\* The caller registers the standard record for tables of its dataset.
SetMeasurementTableIDFields == AssignIDFields(DOMAIN dataSet, {DefaultIDFields})

\* GetMeasurementTableIDFields: the record registered for the name, or the
\* null pointer.
NullIDFields ==
    [SignalIDFieldName |-> "nullptr", MeasurementKeyFieldName |-> "nullptr",
     PointTagFieldName |-> "nullptr"]

GetMeasurementTableIDFields(measurementTableName) ==
    IF measurementTableName \in DOMAIN m_measurementTableIDFields
    THEN m_measurementTableIDFields[measurementTableName]
    ELSE NullIDFields

\* Faulty variant: the accumulators are cleared before the dataset check.
Evaluate_ClearsBeforeCheck ==
    /\ lastCall' = "Evaluate"
    /\ UNCHANGED <<filterExpression, dataSet, Settings>>
    /\ IF m_dataSet = "nullptr"
       THEN /\ lastError' = "NoDataSet"
            /\ m_filteredSignalIDs' = <<>>
            /\ m_filteredSignalIDSet' = {}
            /\ m_filteredRows' = <<>>
            /\ m_expressionTrees' = <<>>
            /\ m_expressions' = <<>>
            /\ UNCHANGED <<parsed, scanned>>
       ELSE \E q \in EvaluateOutcomes(
                        Parser(dataSet, m_trackFilteredSignalIDs,
                               m_trackFilteredRows,
                               m_primaryMeasurementTableName,
                               m_measurementTableIDFields),
                        ParseTree(filterExpression, parsed)) :
               /\ m_filteredSignalIDs' = q.ids
               /\ m_filteredSignalIDSet' = q.idset
               /\ m_filteredRows' = q.rows
               /\ m_expressionTrees' = q.trees
               /\ m_expressions' = q.expressions
               /\ scanned' = q.scanned
               /\ parsed' = TRUE
               /\ lastError' = q.error

Evaluate ==
    /\ lastCall' = "Evaluate"
    /\ UNCHANGED <<filterExpression, dataSet, Settings>>
    /\ IF m_dataSet = "nullptr"
       THEN /\ lastError' = "NoDataSet"
            /\ UNCHANGED Accumulators
       ELSE \E q \in EvaluateOutcomes(
                        Parser(dataSet, m_trackFilteredSignalIDs,
                               m_trackFilteredRows,
                               m_primaryMeasurementTableName,
                               m_measurementTableIDFields),
                        ParseTree(filterExpression, parsed)) :
               /\ m_filteredSignalIDs' = q.ids
               /\ m_filteredSignalIDSet' = q.idset
               /\ m_filteredRows' = q.rows
               /\ m_expressionTrees' = q.trees
               /\ m_expressions' = q.expressions
               /\ scanned' = q.scanned
               /\ parsed' = TRUE
               /\ lastError' = q.error

Next ==
    \/ SetDataSet
    \/ SetTrackFilteredSignalIDs
    \/ SetTrackFilteredRows
    \/ SetPrimaryMeasurementTableName
    \/ SetMeasurementTableIDFields
    \/ Evaluate

\* The state after construction with a given text, beside a given dataset.
Constructed(texts, dataSets) ==
    /\ filterExpression \in texts
    /\ dataSet \in dataSets
    /\ m_dataSet = "nullptr"
    /\ m_trackFilteredSignalIDs = TRUE
    /\ m_trackFilteredRows = FALSE
    /\ m_primaryMeasurementTableName = PrimaryDefault
    /\ m_measurementTableIDFields =
          [n \in {PrimaryDefault} |-> DefaultIDFields]
    /\ m_filteredSignalIDs = <<>>
    /\ m_filteredSignalIDSet = {}
    /\ m_filteredRows = <<>>
    /\ m_expressionTrees = <<>>
    /\ m_expressions = <<>>
    /\ parsed = FALSE
    /\ scanned = <<>>
    /\ lastCall = "Construct"
    /\ lastError = "none"

\* ------------------------------------------------------------ specifications
AllColumns == ColumnNames

IIfFlagTrueOne ==
    FunctionCall("IIF", <<ColumnName("Flag"), BooleanLiteral(1), IntegerLiteral(1)>>)

\* Texts that mix identifier statements and FILTER statements.
MixedStatements ==
    {FilterStatement("ActiveMeasurements", NoTopLimit, IIfFlagTrueOne, <<>>),
     IdentifierStatement("GUID_LITERAL", 0),
     IdentifierStatement("GUID_LITERAL", 1),
     IdentifierStatement("MEASUREMENT_KEY_LITERAL", 1),
     IdentifierStatement("POINT_TAG_LITERAL", 1)}

MixedRows ==
    {DataRow(1, 1, 1, 1, 0), DataRow(0, 1, 1, 1, 0),
     DataRow(Null, 1, 1, 1, 0), DataRow(2, 1, 2, 0, 0)}

Texts(statements, n) == SeqsUpTo(statements, n) \ {<<>>}

DataSets(rows, n) ==
    {[t \in {"ActiveMeasurements"} |->
        DataTable("ActiveMeasurements", AllColumns, r)] : r \in SeqsUpTo(rows, n)}

Init == Constructed(Texts(MixedStatements, MaxStmts), DataSets(MixedRows, MaxRows))

Spec == Init /\ [][Next]_vars

\* The calls that bear on the execution of FILTER statements.
NextFilter ==
    \/ SetDataSet
    \/ SetTrackFilteredSignalIDs
    \/ SetTrackFilteredRows
    \/ Evaluate

TopLimits == {NoTopLimit} \cup 0..MaxTop

\* Single FILTER statements with every TOP limit and a range of WHERE roots.
TopStatements ==
    {FilterStatement("ActiveMeasurements", top, where, <<>>) :
        top \in TopLimits,
        where \in {ColumnName("Flag"), ColumnName("Num"), NullLiteral,
                   IntegerLiteral(1), IIfFlagTrueOne}}

TopRows ==
    {NilRow, DataRow(1, 1, 1, 1, 0), DataRow(2, 1, 1, 1, Null),
     DataRow(2, 1, 1, 0, 0), DataRow(0, 1, 1, 1, 0), DataRow(1, 1, 1, Null, 0)}

InitTop == Constructed(Texts(TopStatements, 1), DataSets(TopRows, MaxRows))

SpecTop == InitTop /\ [][NextFilter]_vars

\* Single FILTER statements with ORDER BY, with and without TOP.
OrderBys ==
    {<<OrderingTerm("Num", FALSE)>>,
     <<OrderingTerm("Num", TRUE)>>,
     <<OrderingTerm("Flag", FALSE), OrderingTerm("Num", TRUE)>>,
     <<OrderingTerm("Flag", TRUE), OrderingTerm("Num", FALSE)>>}

OrderStatements ==
    {FilterStatement("ActiveMeasurements", top, where, orderBy) :
        top \in TopLimits,
        where \in {BooleanLiteral(1), ColumnName("Flag")},
        orderBy \in OrderBys}

\* Tables whose rows carry distinct signal IDs (the row's position).
OrderCells == {0, 1} \X {Null, 1}

OrderDataSets(n) ==
    {[t \in {"ActiveMeasurements"} |->
        DataTable("ActiveMeasurements", AllColumns,
                  [i \in DOMAIN c |-> DataRow(i, 1, 1, c[i][1], c[i][2])])] :
     c \in SeqsUpTo(OrderCells, n)}

InitOrder == Constructed(Texts(OrderStatements, 1), OrderDataSets(MaxRows + 1))

SpecOrder == InitOrder /\ [][NextFilter]_vars

\* ------------------------------------------------------------------ claims
ActiveTable == dataSet["ActiveMeasurements"]

IsPrefix(s, t) == Len(s) <= Len(t) /\ \A i \in DOMAIN s : s[i] = t[i]

NoDuplicates(s) == \A i, j \in DOMAIN s : i # j => s[i] # s[j]

\* The signal ID cell of the row a row pointer names.
SignalIDOf(ref) == dataSet[ref.table].rows[ref.index].SignalID

\* C1: in every reachable state FilteredSignalIDs holds no GUID twice and
\* never the all-zeros GUID, whichever statement kind contributed the entry.
C1_SignalIDsDistinctNonEmpty ==
    /\ NoDuplicates(m_filteredSignalIDs)
    /\ \A i \in DOMAIN m_filteredSignalIDs : m_filteredSignalIDs[i] # EmptyGuid

\* A GUID identifier claimed signal ID 1; the FILTER statement that follows
\* matched a row carrying it again and a row carrying the all-zeros GUID.
C1_Witness ==
    /\ lastCall = "Evaluate" /\ lastError = "none"
    /\ Len(filterExpression) = 2
    /\ filterExpression[1] = IdentifierStatement("GUID_LITERAL", 1)
    /\ filterExpression[2].kind = "filterStatement"
    /\ Len(scanned) = 2
    /\ {ActiveTable.rows[i].SignalID : i \in DOMAIN ActiveTable.rows} = {0, 1}
    /\ m_filteredSignalIDs = <<1>>

\* C2: after any Evaluate, whatever its outcome, FilteredSignalIDs and
\* FilteredSignalIDSet have the same size and hold the same GUIDs.
C2_SetMatchesSequence ==
    lastCall = "Evaluate" =>
        /\ Len(m_filteredSignalIDs) = Cardinality(m_filteredSignalIDSet)
        /\ Range(m_filteredSignalIDs) = m_filteredSignalIDSet

\* --- single FILTER statement on ActiveMeasurements (SpecTop, SpecOrder)
TheStatement == filterExpression[1]

\* The last call was an Evaluate that walked the text's FILTER statement.
Walked ==
    lastCall = "Evaluate" /\ lastError # "NoDataSet" /\ m_expressionTrees # <<>>

RootValue(i) == EvaluateExpression(m_expressionTrees[1].Root, ActiveTable.rows[i])

PredicateTrue(i) ==
    /\ ~ActiveTable.rows[i].nil
    /\ RootValue(i).ValueType = "Boolean"
    /\ RootValue(i).val = 1

\* Row i is accepted: the predicate is true on it and, when signal IDs are
\* tracked, its signal ID is set, not all zeros and not met on an earlier
\* row on which the predicate is true.
Accepted(i) ==
    /\ PredicateTrue(i)
    /\ m_trackFilteredSignalIDs =>
          /\ ActiveTable.rows[i].SignalID \notin {Null, EmptyGuid}
          /\ \A j \in 1..(i - 1) :
                PredicateTrue(j) =>
                   ActiveTable.rows[j].SignalID # ActiveTable.rows[i].SignalID

AcceptedRows == {i \in DOMAIN ActiveTable.rows : Accepted(i)}

\* The first n accepted rows in table order (all of them when n < 0).
FirstAccepted(n) ==
    IF n < 0 THEN AcceptedRows
    ELSE {i \in AcceptedRows : Cardinality({j \in AcceptedRows : j < i}) < n}

ScannedRows == {scanned[k].index : k \in DOMAIN scanned}

\* The statement's output as row indexes, read from FilteredRows or, when
\* only signal IDs are tracked, from FilteredSignalIDs (accepted rows carry
\* distinct signal IDs then).
Output ==
    IF m_trackFilteredRows
    THEN [k \in DOMAIN m_filteredRows |-> m_filteredRows[k].index]
    ELSE [k \in DOMAIN m_filteredSignalIDs |->
            CHOOSE i \in DOMAIN ActiveTable.rows :
                Accepted(i) /\ ActiveTable.rows[i].SignalID = m_filteredSignalIDs[k]]

Tracking == m_trackFilteredRows \/ m_trackFilteredSignalIDs

\* Null is smaller than every value; two nulls are equal.
Smaller(x, y) == (x = Null /\ y # Null) \/ (x # Null /\ y # Null /\ x < y)

\* Row a may stand before row b under the statement's ordering terms.
InTermOrder(orderBy, a, b) ==
    LET differ == {k \in DOMAIN orderBy : a[orderBy[k].column] # b[orderBy[k].column]}
    IN  differ = {} \/
        LET k == CHOOSE m \in differ : \A n \in differ : m <= n
        IN  IF orderBy[k].K_DESC
            THEN Smaller(b[orderBy[k].column], a[orderBy[k].column])
            ELSE Smaller(a[orderBy[k].column], b[orderBy[k].column])

EqualUnderTerms(orderBy, a, b) ==
    \A k \in DOMAIN orderBy : a[orderBy[k].column] = b[orderBy[k].column]

\* The last row the TOP N scan evaluates.
ScanEnd(n) ==
    IF n = 0 THEN 0
    ELSE IF n > 0 /\ Cardinality(AcceptedRows) >= n
    THEN CHOOSE i \in FirstAccepted(n) : \A j \in FirstAccepted(n) : j <= i
    ELSE Len(ActiveTable.rows)

\* C3: with TOP N (N >= 0) and ORDER BY the output is the sort of exactly the
\* first min(N, accepted) accepted rows in table order; the scan evaluates no
\* row after the N-th accepted one, and TOP 0 evaluates no row.
C3_TopBeforeOrderBy ==
    (Walked /\ lastError = "none" /\ TheStatement.top >= 0
       /\ TheStatement.orderBy # <<>>) =>
        /\ ScannedRows =
              {i \in 1..ScanEnd(TheStatement.top) : ~ActiveTable.rows[i].nil}
        /\ Tracking =>
              /\ Range(Output) = FirstAccepted(TheStatement.top)
              /\ NoDuplicates(Output)
              /\ \A i, j \in DOMAIN Output :
                    i < j => InTermOrder(TheStatement.orderBy,
                                         ActiveTable.rows[Output[i]],
                                         ActiveTable.rows[Output[j]])

\* TOP 2 over three accepted rows: the third row is never evaluated and the
\* two rows kept come out in the opposite of table order.
C3_Witness ==
    /\ Walked /\ lastError = "none" /\ m_trackFilteredRows
    /\ TheStatement.top = 2 /\ TheStatement.orderBy # <<>>
    /\ Cardinality(AcceptedRows) = 3
    /\ ScannedRows = {1, 2}
    /\ Output = <<2, 1>>

\* What Evaluate yields for the statement with TOP n, other things equal.
TopResults(n) ==
    EvaluateOutcomes(
        Parser(dataSet, m_trackFilteredSignalIDs, m_trackFilteredRows,
               m_primaryMeasurementTableName, m_measurementTableIDFields),
        <<[TheStatement EXCEPT !.top = n]>>)

C5_StableOrder ==
    (Walked /\ lastError = "none" /\ TheStatement.orderBy # <<>> /\ Tracking) =>
        \A i, j \in DOMAIN Output :
            (i < j /\ EqualUnderTerms(TheStatement.orderBy,
                                      ActiveTable.rows[Output[i]],
                                      ActiveTable.rows[Output[j]]))
               => Output[i] < Output[j]

\* C6: the output is a permutation of the matched rows, ordered term by
\* term: at the first term on which two rows differ the earlier row has the
\* smaller cell under ASC and the larger under DESC, a null being smallest.
C6_LexicographicOrder ==
    (Walked /\ lastError = "none" /\ TheStatement.orderBy # <<>> /\ Tracking) =>
        /\ Range(Output) = FirstAccepted(TheStatement.top)
        /\ Len(Output) = Cardinality(FirstAccepted(TheStatement.top))
        /\ \A i, j \in DOMAIN Output :
              i < j => InTermOrder(TheStatement.orderBy,
                                   ActiveTable.rows[Output[i]],
                                   ActiveTable.rows[Output[j]])

\* Three rows sorted by Flag DESC, Num ASC: the second term decides between
\* rows 1 and 3, the null of row 3 comes first, and row 2 goes last.
C6_Witness ==
    /\ Walked /\ lastError = "none" /\ m_trackFilteredSignalIDs
    /\ TheStatement.top = NoTopLimit
    /\ TheStatement.orderBy =
          <<OrderingTerm("Flag", TRUE), OrderingTerm("Num", FALSE)>>
    /\ Len(ActiveTable.rows) = 3
    /\ ActiveTable.rows[1].Flag = 1 /\ ActiveTable.rows[1].Num = 1
    /\ ActiveTable.rows[2].Flag = 0
    /\ ActiveTable.rows[3].Flag = 1 /\ ActiveTable.rows[3].Num = Null
    /\ Output = <<3, 1, 2>>

\* --- identifier statements (Spec)
\* The rows of the primary table whose column holds the value.
MatchingRows(column, value) ==
    IF m_primaryMeasurementTableName \notin DOMAIN dataSet THEN {}
    ELSE LET rows == dataSet[m_primaryMeasurementTableName].rows
         IN  {i \in DOMAIN rows :
                 (~rows[i].nil) /\ rows[i][column] # Null /\ rows[i][column] = value}

IdentifierColumn(stmt) ==
    IF stmt.kind = "MEASUREMENT_KEY_LITERAL"
    THEN DefaultIDFields.MeasurementKeyFieldName
    ELSE DefaultIDFields.PointTagFieldName

\* C7: a measurement-key or point-tag identifier statement stops at the
\* first matching row: it adds at most one entry to each accumulator and no
\* row after the first matching one contributes, whatever the tracking flags.
C7_FirstMatchOnly ==
    (lastCall = "Evaluate" /\ Len(filterExpression) = 1
       /\ TheStatement.kind \in {"MEASUREMENT_KEY_LITERAL", "POINT_TAG_LITERAL"}) =>
        LET matching == MatchingRows(IdentifierColumn(TheStatement),
                                     TheStatement.literal)
        IN  /\ Len(m_filteredSignalIDs) <= 1
            /\ Len(m_filteredRows) <= 1
            /\ \A k \in DOMAIN m_filteredRows :
                  \A i \in matching : m_filteredRows[k].index <= i
            /\ \A k \in DOMAIN m_filteredSignalIDs :
                  \A i \in matching :
                     \E j \in matching :
                        /\ j <= i
                        /\ m_filteredSignalIDs[k] =
                              dataSet[m_primaryMeasurementTableName].rows[j].SignalID

\* C8: after a successful Evaluate with both tracking flags set, FilteredRows
\* and FilteredSignalIDs have the same length and FilteredRows[i] carries the
\* signal ID FilteredSignalIDs[i], for every statement kind.
C8_RowsPairWithSignalIDs ==
    (lastCall = "Evaluate" /\ lastError = "none"
       /\ m_trackFilteredSignalIDs /\ m_trackFilteredRows) =>
        /\ Len(m_filteredRows) = Len(m_filteredSignalIDs)
        /\ \A i \in DOMAIN m_filteredRows :
              i \in DOMAIN m_filteredSignalIDs
                 /\ SignalIDOf(m_filteredRows[i]) = m_filteredSignalIDs[i]

\* --- the WHERE root (SpecTop)
LastScannedValue == RootValue(scanned[Len(scanned)].index)

\* C9: a WHERE root that evaluates to null on a row, typed Boolean or
\* Undefined, makes the row a non-match and raises no error.
C9_NullRootIsNoMatch ==
    (Walked /\ lastError = "NotBoolean") =>
        ~(/\ LastScannedValue.val = Null
          /\ LastScannedValue.ValueType \in {"Boolean", "Undefined"})

\* The root is a literal that is not null and not Boolean.
NonBooleanLiteralRoot ==
    /\ m_expressionTrees[1].Root.kind = "Literal"
    /\ m_expressionTrees[1].Root.type # "Boolean"
    /\ m_expressionTrees[1].Root.val # Null

NonNilRows == {i \in DOMAIN ActiveTable.rows : ~ActiveTable.rows[i].nil}

\* C10 as stated: a statement whose WHERE root is a non-null value of a type
\* other than Boolean makes Evaluate fail for every table and TOP limit.
C10_NonBooleanRootAlwaysFails ==
    (Walked /\ NonBooleanLiteralRoot) => lastError # "none"

\* C10 amended: such a statement raises the error when its scan evaluates
\* its first non-null row, so Evaluate fails exactly when the table has a
\* non-null row and the TOP limit is absent or above 0; no row after that
\* one is evaluated.
C10_NonBooleanRootFailsOnFirstRow ==
    (Walked /\ NonBooleanLiteralRoot) =>
        /\ lastError \in {"none", "NotBoolean"}
        /\ lastError = "NotBoolean" <=>
              (NonNilRows # {} /\ TheStatement.top # 0)
        /\ lastError = "NotBoolean" =>
              ScannedRows = {CHOOSE i \in NonNilRows : \A j \in NonNilRows : i <= j}
        /\ lastError = "none" => ScannedRows = {}

\* A null first row is skipped and the error is raised on the second row.
C10_Witness ==
    /\ Walked /\ NonBooleanLiteralRoot
    /\ lastError = "NotBoolean"
    /\ Len(ActiveTable.rows) = 2
    /\ ActiveTable.rows[1].nil
    /\ ScannedRows = {2}

\* ------------------------------------------------- resolution (SpecResolve)
\* A record a caller registers that names a signal-ID column no table has.
CustomIDFields ==
    [SignalIDFieldName |-> "NodeID", MeasurementKeyFieldName |-> "ID",
     PointTagFieldName |-> "PointTag"]

SetCustomMeasurementTableIDFields == AssignIDFields(TableNames, {CustomIDFields})

NextResolve ==
    \/ SetDataSet
    \/ SetTrackFilteredSignalIDs
    \/ SetTrackFilteredRows
    \/ SetPrimaryMeasurementTableName
    \/ SetCustomMeasurementTableIDFields
    \/ Evaluate

\* FILTER statements on a table with and without registered ID fields, on an
\* unknown table, with an unknown WHERE column and an unknown ORDER BY
\* column, and a GUID statement.
ResolveStatements ==
    {FilterStatement("ActiveMeasurements", NoTopLimit, ColumnName("Flag"), <<>>),
     FilterStatement("Other", NoTopLimit, ColumnName("Flag"), <<>>),
     FilterStatement("Missing", NoTopLimit, ColumnName("Flag"), <<>>),
     FilterStatement("ActiveMeasurements", NoTopLimit, ColumnName("Unknown"), <<>>),
     FilterStatement("ActiveMeasurements", NoTopLimit, ColumnName("Flag"),
                     <<OrderingTerm("Unknown", FALSE)>>),
     IdentifierStatement("GUID_LITERAL", 2)}

ResolveDataSets(n) ==
    {[t \in TableNames |->
        IF t = "ActiveMeasurements"
        THEN DataTable(t, AllColumns, a)
        ELSE DataTable(t, AllColumns, o)] :
     a \in SeqsUpTo({DataRow(1, 1, 1, 1, 0)}, n),
     o \in {<<>>, <<DataRow(2, 1, 1, 1, 0)>>}}

InitResolve ==
    Constructed(Texts(ResolveStatements, MaxStmts), ResolveDataSets(MaxRows))

SpecResolve == InitResolve /\ [][NextResolve]_vars

WalkErrors == {"TableNotFound", "OrderByFieldNotFound", "ColumnNotFound"}

\* The last call was an Evaluate whose walk completed.
Executed ==
    lastCall = "Evaluate" /\ lastError \notin WalkErrors \cup {"NoDataSet"}

\* The tree's table has no ID fields record, or the record names a signal-ID
\* column the table does not have.
LacksSignalIDColumn(x) ==
    LET name == m_expressionTrees[x].table
    IN  \/ GetMeasurementTableIDFields(name) = NullIDFields
        \/ GetMeasurementTableIDFields(name).SignalIDFieldName
              \notin dataSet[name].cols

UnresolvableTrees == {x \in DOMAIN m_expressionTrees : LacksSignalIDColumn(x)}

FirstUnresolvable ==
    CHOOSE x \in UnresolvableTrees : \A y \in UnresolvableTrees : x <= y

\* C11: with signal-ID tracking on, a FILTER statement whose table has no ID
\* fields record or lacks the configured signal-ID column makes Evaluate
\* fail before any row of that statement is scanned, even for an empty
\* table; with tracking off neither absence makes Evaluate fail.
C11_MissingIDFieldsFatalOnlyWhenTracking ==
    Executed =>
        IF m_trackFilteredSignalIDs /\ UnresolvableTrees # {}
        THEN /\ lastError =
                  IF GetMeasurementTableIDFields(
                        m_expressionTrees[FirstUnresolvable].table) = NullIDFields
                  THEN "NoIDFields"
                  ELSE "NoSignalIDField"
             /\ \A k \in DOMAIN scanned : scanned[k].tree < FirstUnresolvable
        ELSE lastError = "none"

\* The failing statement is on an empty table, after a scanned statement.
C11_Witness ==
    /\ Executed /\ m_trackFilteredSignalIDs
    /\ lastError = "NoIDFields"
    /\ FirstUnresolvable = 2
    /\ dataSet["Other"].rows = <<>>
    /\ scanned # <<>>

\* C12 as stated: as long as SetMeasurementTableIDFields was not called for
\* the current primary table name, GetMeasurementTableIDFields of that name
\* returns the standard triple, whatever SetPrimaryMeasurementTableName calls
\* were made.
C12_PrimaryHasDefaultIDFields ==
    GetMeasurementTableIDFields(m_primaryMeasurementTableName) # CustomIDFields =>
        GetMeasurementTableIDFields(m_primaryMeasurementTableName) = DefaultIDFields

\* C12 amended: the standard triple is registered for the name
\* ActiveMeasurements only; for a primary table name that has had no
\* SetMeasurementTableIDFields call the lookup returns the triple when the
\* name is ActiveMeasurements and the null pointer otherwise.
C12_DefaultForActiveMeasurementsOnly ==
    GetMeasurementTableIDFields(m_primaryMeasurementTableName) # CustomIDFields =>
        GetMeasurementTableIDFields(m_primaryMeasurementTableName) =
            IF m_primaryMeasurementTableName = PrimaryDefault
            THEN DefaultIDFields
            ELSE NullIDFields

\* The primary table name was changed and has no record.
C12_Witness ==
    /\ lastCall = "Set"
    /\ m_primaryMeasurementTableName = "Other"
    /\ GetMeasurementTableIDFields("Other") = NullIDFields
    /\ GetMeasurementTableIDFields(PrimaryDefault) = DefaultIDFields

IsIdentifierStatement(stmt) == stmt.kind # "filterStatement"

IsFilterStatement(stmt) == stmt.kind = "filterStatement"

\* What the identifier statements of the text contribute on their own.
IdentifiersOnly ==
    WalkStatements(Parser(dataSet, m_trackFilteredSignalIDs, m_trackFilteredRows,
                          m_primaryMeasurementTableName,
                          m_measurementTableIDFields),
                   SelectSeq(filterExpression, IsIdentifierStatement), 1)

\* C17: an unknown table, WHERE column or ORDER BY column makes Evaluate fail
\* during the walk, before the row scan of any FILTER statement, so that the
\* accumulators hold nothing a FILTER statement contributed; a missing ID
\* fields record or signal-ID column is raised when the statement's
\* execution starts, after every earlier statement has been executed.
C17_ResolutionErrorsBeforeExecution ==
    /\ (lastCall = "Evaluate" /\ lastError \in WalkErrors) =>
          /\ scanned = <<>>
          /\ IsPrefix(m_filteredSignalIDs, IdentifiersOnly.ids)
          /\ IsPrefix(m_filteredRows, IdentifiersOnly.rows)
          /\ m_filteredSignalIDSet = Range(m_filteredSignalIDs)
    /\ (lastCall = "Evaluate" /\ lastError \in {"NoIDFields", "NoSignalIDField"}) =>
          /\ Len(m_expressionTrees) =
                Len(SelectSeq(filterExpression, IsFilterStatement))
          /\ \A x \in 1..(FirstUnresolvable - 1) :
                \A i \in DOMAIN dataSet[m_expressionTrees[x].table].rows :
                   [tree |-> x, index |-> i] \in Range(scanned)

\* An unknown column in the second statement, after a statement that would
\* have matched rows.
C17_Witness ==
    /\ lastCall = "Evaluate" /\ lastError = "ColumnNotFound"
    /\ m_trackFilteredSignalIDs
    /\ Len(filterExpression) = 2
    /\ filterExpression[1] =
          FilterStatement("ActiveMeasurements", NoTopLimit, ColumnName("Flag"), <<>>)
    /\ ActiveTable.rows # <<>>
    /\ m_filteredSignalIDs = <<>>

\* ------------------------------------------------- repeated calls (Spec)
\* The parser with the current settings and empty accumulators.
Cleared ==
    Parser(dataSet, m_trackFilteredSignalIDs, m_trackFilteredRows,
           m_primaryMeasurementTableName, m_measurementTableIDFields)

\* What one Evaluate call can produce from empty accumulators: nothing when
\* it fails on the dataset check, otherwise the outcome for the text or for
\* the statements a later parse finds.
ProducedByOneCall ==
    IF m_dataSet = "nullptr" THEN {Cleared}
    ELSE EvaluateOutcomes(Cleared, filterExpression)
            \cup EvaluateOutcomes(Cleared, <<>>)

\* C13: every Evaluate call clears the accumulators on entry: after any
\* Evaluate call, successful or failed, the accumulators hold only what that
\* call produced.
C13_ClearsOnEntry ==
    lastCall = "Evaluate" =>
        \E q \in ProducedByOneCall :
            /\ m_filteredSignalIDs = q.ids
            /\ m_filteredSignalIDSet = q.idset
            /\ m_filteredRows = q.rows

\* C16: an Evaluate call that directly follows a successful Evaluate call,
\* with dataset and settings unchanged, executes the same expression trees
\* and leaves the accumulators with the same contents.
C16_SecondEvaluateRepeats ==
    [][(lastCall = "Evaluate" /\ lastError = "none" /\ lastCall' = "Evaluate") =>
          /\ m_expressionTrees' = m_expressionTrees
          /\ m_filteredSignalIDs' = m_filteredSignalIDs
          /\ m_filteredSignalIDSet' = m_filteredSignalIDSet
          /\ m_filteredRows' = m_filteredRows]_vars


\* ------------------------------------------ the static entry points (SpecStatic)
\* The text the static entry points hand to the new parser: filterExpression
\* itself when it starts with "FILTER ", otherwise the wrapped text.
WrappedText(tableName, filterText) ==
    IF StartsWithFilter(filterText) THEN filterText
    ELSE PrefixedText("FITLER", tableName, filterText)

\* The ID fields the constructor registers.
ConstructedIDFields == [n \in {PrimaryDefault} |-> DefaultIDFields]

\* Faulty variant: Select leaves signal-ID tracking on.
SelectSettings_TracksSignalIDs(tableName) ==
    Parser(dataSet, TRUE, TRUE, tableName, ConstructedIDFields)

\* The new parser of Select after its four setter calls.
SelectSettings(tableName) ==
    Parser(dataSet, FALSE, TRUE, tableName, ConstructedIDFields)

\* Select(dataTable, filterExpression): a new parser on the wrapped text, the
\* setters, Evaluate; the state is that of the new parser when the call ends.
Select(filterTexts) ==
    \E t \in DOMAIN dataSet, filterText \in filterTexts :
      \E q \in EvaluateOutcomes(SelectSettings(t),
                                WrappedText(t, filterText)) :
        /\ filterExpression' = WrappedText(t, filterText)
        /\ m_dataSet' = "dataSet"
        /\ m_primaryMeasurementTableName' = q.primary
        /\ m_trackFilteredSignalIDs' = q.trackIDs
        /\ m_trackFilteredRows' = q.trackRows
        /\ m_measurementTableIDFields' = q.idFields
        /\ m_filteredSignalIDs' = q.ids
        /\ m_filteredSignalIDSet' = q.idset
        /\ m_filteredRows' = q.rows
        /\ m_expressionTrees' = q.trees
        /\ m_expressions' = q.expressions
        /\ scanned' = q.scanned
        /\ parsed' = TRUE
        /\ lastCall' = "Select"
        /\ lastError' = q.error
        /\ UNCHANGED dataSet

\* GenerateExpressionTree(dataTable, filterExpression): a new parser on the
\* wrapped text, two setters, parse and walk; no statement is executed.
GenerateExpressionTree(filterTexts) ==
    \E t \in DOMAIN dataSet, filterText \in filterTexts :
      \E w \in {WalkStatements(
                    Parser(dataSet, TRUE, FALSE, t, ConstructedIDFields),
                    WrappedText(t, filterText), 1)} :
        /\ filterExpression' = WrappedText(t, filterText)
        /\ m_dataSet' = "dataSet"
        /\ m_primaryMeasurementTableName' = t
        /\ m_trackFilteredSignalIDs' = TRUE
        /\ m_trackFilteredRows' = FALSE
        /\ m_measurementTableIDFields' = ConstructedIDFields
        /\ m_filteredSignalIDs' = w.ids
        /\ m_filteredSignalIDSet' = w.idset
        /\ m_filteredRows' = w.rows
        /\ m_expressionTrees' = w.trees
        /\ m_expressions' = w.expressions
        /\ scanned' = w.scanned
        /\ parsed' = TRUE
        /\ lastCall' = "GenerateExpressionTree"
        /\ lastError' = w.error
        /\ UNCHANGED dataSet

\* m_activeExpressionTree, the result of GenerateExpressionTree: the tree of
\* the last FILTER statement entered.
NoTree == ExpressionTree("", NoExpression, NoTopLimit, <<>>)

m_activeExpressionTree ==
    IF m_expressionTrees = <<>> THEN NoTree
    ELSE m_expressionTrees[Len(m_expressionTrees)]


\* Rows with a signal ID, the all-zeros signal ID, a null signal ID, a null
\* row pointer, and a row on which Flag is false.
SelectRows ==
    {DataRow(1, 1, 1, 1, 0), DataRow(0, 1, 1, 1, 0),
     DataRow(Null, 1, 1, 1, 0), NilRow, DataRow(2, 1, 2, 0, 0)}

\* ActiveMeasurements, and a table without a signal-ID column whose two rows
\* carry the same cells.
StaticDataSets(n) ==
    {[t \in TableNames |->
        IF t = "ActiveMeasurements"
        THEN DataTable(t, AllColumns, a)
        ELSE DataTable(t, AllColumns \ {"SignalID"},
                       <<DataRow(1, 1, 1, 1, 0), DataRow(1, 1, 1, 1, 0)>>)] :
     a \in SeqsUpTo(SelectRows, n)}

FilterWhere(table, where) == FilterStatement(table, NoTopLimit, where, <<>>)

\* Texts for Select: FILTER statements alone, in pairs, with TOP and with
\* ORDER BY, with a predicate that is not Boolean, and bare expressions.
SelectTexts ==
    {<<FilterWhere("ActiveMeasurements", ColumnName("Flag"))>>,
     <<FilterWhere("Other", ColumnName("Flag"))>>,
     <<FilterWhere("ActiveMeasurements", IIfFlagTrueOne)>>,
     <<FilterWhere("ActiveMeasurements", ColumnName("Flag")),
       FilterWhere("Other", ColumnName("Flag"))>>,
     <<FilterStatement("ActiveMeasurements", 1, ColumnName("Flag"), <<>>)>>,
     <<FilterStatement("ActiveMeasurements", NoTopLimit, ColumnName("Flag"),
                       <<OrderingTerm("PointTag", TRUE)>>)>>,
     ExpressionText(ColumnName("Flag")),
     ExpressionText(BooleanLiteral(1))}

\* Statements whose walk builds trees of one node and of nested nodes.
TreeStatements ==
    {FilterWhere("ActiveMeasurements", IIfFlagTrueOne),
     FilterWhere("ActiveMeasurements", BooleanLiteral(1)),
     FilterWhere("Other", ColumnName("Flag")),
     FilterStatement("Other", NoTopLimit, BooleanLiteral(1),
                     <<OrderingTerm("Num", FALSE)>>),
     IdentifierStatement("GUID_LITERAL", 1)}

\* Function calls by name and argument count, alone and nested.
FunctionCalls ==
    {FunctionCall("COALESCE", <<>>),
     FunctionCall("TRIM", <<ColumnName("PointTag")>>),
     FunctionCall("COALESCE", <<ColumnName("Flag"), BooleanLiteral(0)>>),
     FunctionCall("NOSUCH", <<>>),
     FunctionCall("NOSUCH", <<ColumnName("Flag")>>),
     FunctionCall("IIF", <<FunctionCall("LEN", <<>>), BooleanLiteral(1),
                           BooleanLiteral(0)>>),
     FunctionCall("IIF", <<ColumnName("Unknown"), FunctionCall("LEN", <<>>),
                           BooleanLiteral(0)>>)}

\* INTEGER literals at and around Int32.Max, 2^53 and Int64.Max.
IntegerLiterals ==
    {IntegerLiteral(0), IntegerLiteral(Int32MaxValue)}
       \cup {LargeIntegerLiteral("2^31", d) : d \in {0, 1}}
       \cup {LargeIntegerLiteral("2^53", d) : d \in {-1, 0, 1, 2, 3}}
       \cup {LargeIntegerLiteral("2^63", d) :
                d \in {-1025, -1024, -513, -512, -1, 0, 1, 1024, 1025, 2048}}

GenerateTexts(n) ==
    {t \in Texts(TreeStatements, n) : StartsWithFilter(t)}
       \cup {<<FilterWhere("ActiveMeasurements", w)>> :
                w \in FunctionCalls \cup IntegerLiterals}
       \cup {ExpressionText(ColumnName("Flag"))}

\* The filter texts GenerateExpressionTree is called with.
GenerateTreeTexts == GenerateTexts(MaxStmts)

NextStatic ==
    \/ Select(SelectTexts)
    \/ GenerateExpressionTree(GenerateTreeTexts)

\* The walk reads no row: tables of at most one row.
InitStatic ==
    Constructed({<<FilterWhere("ActiveMeasurements", ColumnName("Flag"))>>},
                StaticDataSets(1))

SpecStatic == InitStatic /\ [][NextStatic]_vars

\* Select alone, on tables of up to MaxRows rows.
NextSelect == Select(SelectTexts)

InitSelect ==
    Constructed({<<FilterWhere("ActiveMeasurements", ColumnName("Flag"))>>},
                StaticDataSets(MaxRows))

SpecSelect == InitSelect /\ [][NextSelect]_vars

StaticCall == lastCall \in {"Select", "GenerateExpressionTree"}

\* C14: the text GenerateExpressionTree and Select hand to the parser always
\* begins with the keyword FILTER: the given text when it starts with
\* "FILTER ", otherwise "FILTER <tableName> WHERE <filterText>".
C14_ParsedTextBeginsWithFilter ==
    StaticCall => StartsWithFilter(filterExpression)


\* --- Select (SpecSelect)
\* The text is one FILTER statement without TOP and without ORDER BY.
PlainFilterStatement ==
    /\ Len(filterExpression) = 1
    /\ TheStatement.kind = "filterStatement"
    /\ TheStatement.top = NoTopLimit
    /\ TheStatement.orderBy = <<>>

\* The indices of the non-null rows of the statement's table on which the
\* WHERE expression is true, in table order.
RowsWherePredicateTrue ==
    LET measurements == dataSet[TheStatement.table]
        Matches(i) ==
            /\ ~measurements.rows[i].nil
            /\ ValueAsBoolean(EvaluateExpression(
                   BuildExpression(TheStatement.where), measurements.rows[i]))
    IN  SelectSeq([i \in DOMAIN measurements.rows |-> i], Matches)

\* C15: Select needs no ID-fields record and no signal-ID column, and for a
\* single FILTER statement without TOP or ORDER BY it returns exactly the
\* non-null rows on which the predicate is true, each once, in table order,
\* whatever their signal IDs; no signal ID is collected.
C15_SelectReturnsEveryMatchedRow ==
    lastCall = "Select" =>
        /\ lastError \notin {"NoIDFields", "NoSignalIDField"}
        /\ (lastError = "none" /\ PlainFilterStatement) =>
              /\ m_filteredRows =
                    [k \in DOMAIN RowsWherePredicateTrue |->
                        RowRef(TheStatement.table, RowsWherePredicateTrue[k])]
              /\ m_filteredSignalIDs = <<>>
              /\ m_filteredSignalIDSet = {}

\* Select returned both rows of a table whose rows carry the same all-zeros
\* signal ID.
C15_Witness ==
    /\ lastCall = "Select" /\ lastError = "none" /\ PlainFilterStatement
    /\ TheStatement.table = "ActiveMeasurements"
    /\ ActiveTable.rows = <<DataRow(0, 1, 1, 1, 0), DataRow(0, 1, 1, 1, 0)>>
    /\ m_filteredRows = <<RowRef("ActiveMeasurements", 1),
                          RowRef("ActiveMeasurements", 2)>>

\* Select on the table without a signal-ID column and without an ID-fields
\* record returned its rows.
C15_WitnessNoIDFields ==
    /\ lastCall = "Select" /\ lastError = "none" /\ PlainFilterStatement
    /\ TheStatement.table = "Other"
    /\ "Other" \notin DOMAIN m_measurementTableIDFields
    /\ Len(m_filteredRows) = 2


\* --- the walk of FILTER statements (SpecStatic)
\* C19: a function call with any name and any argument count the grammar
\* allows, the empty argument list included, either yields a Function node
\* or raises a parser exception; the walk never reads through a missing
\* expressionList.
C19_FunctionCallNeverFaults ==
    StaticCall => lastError # "NullDereference"


\* The FILTER statements of the text, in statement order.
FilterStatements == SelectSeq(filterExpression, IsFilterStatement)

\* The walk of the whole text went through.
WalkCompleted == StaticCall /\ lastError \notin WalkErrors \cup
                    {"SyntaxError", "UnexpectedFunction", "NullDereference"}

\* One tree per FILTER statement, in statement order, each with the
\* expression of its statement's outermost WHERE expression as Root.
OneTreePerFilterStatement ==
    /\ Len(m_expressionTrees) = Len(FilterStatements)
    /\ \A i \in DOMAIN m_expressionTrees :
          /\ m_expressionTrees[i].table = FilterStatements[i].table
          /\ m_expressionTrees[i].Root =
                BuildExpression(FilterStatements[i].where)

SharedLiterals == {"ExpressionTree::True", "ExpressionTree::False",
                   "ExpressionTree::NullValue"}

IntegerLiteralWalked ==
    /\ lastCall = "GenerateExpressionTree" /\ lastError = "none"
    /\ Len(filterExpression) = 1
    /\ IsFilterStatement(TheStatement)
    /\ TheStatement.where.token = "INTEGER_LITERAL"

\* The value the literal's digits denote.
LiteralValue == Number(TheStatement.where.name, TheStatement.where.num)

\* C20: an INTEGER literal with value v becomes a Double literal when
\* v > Int64.Max, an Int64 literal with payload v when
\* Int32.Max < v <= Int64.Max, and an Int32 literal with payload v when
\* v <= Int32.Max.
C20_IntegerLiteralTypeAndPayload ==
    IntegerLiteralWalked =>
        LET v == LiteralValue
            literal == m_activeExpressionTree.Root
        IN  IF Greater(v, Int64Max) THEN literal.type = "Double"
            ELSE IF Greater(v, Int32Max)
            THEN literal.type = "Int64" /\ literal.val = v
            ELSE literal.type = "Int32" /\ literal.val = v.off


\* ------------------------------------ Evaluate without a dataset (SpecSequence)
\* C21: an Evaluate call made while no dataset is set raises the 'no dataset
\* has been defined' error and changes nothing: the accumulators, the
\* expression trees, the expressions stored for parse-tree nodes, the parser
\* position and the settings keep the values they had before the call.
C21_NoDataSetChangesNothing ==
    [][(lastCall' = "Evaluate" /\ m_dataSet = "nullptr") =>
          /\ lastError' = "NoDataSet"
          /\ UNCHANGED <<filterExpression, dataSet, Settings, Accumulators>>]_vars

\* The failed call came after a successful one whose signal IDs, tree and
\* stored expressions are all still there.
C21_Witness ==
    /\ lastCall = "Evaluate" /\ lastError = "NoDataSet"
    /\ m_dataSet = "nullptr"
    /\ m_filteredSignalIDs # <<>>
    /\ m_filteredSignalIDSet # {}
    /\ m_expressionTrees # <<>>
    /\ m_expressions # <<>>
    /\ parsed


\* ------------------------------- statements in sequence (SpecSequence)
\* Signal-ID tracking stays on, as constructed.
NextSequence ==
    \/ SetDataSet
    \/ SetTrackFilteredRows
    \/ Evaluate

\* FILTER statements without TOP and with TOP 1..MaxTop, and GUID statements
\* that name signal IDs rows of the table carry.
SequenceStatements ==
    {FilterStatement("ActiveMeasurements", top, ColumnName("Flag"), <<>>) :
        top \in {NoTopLimit} \cup 1..MaxTop}
       \cup {IdentifierStatement("GUID_LITERAL", g) : g \in {1, 2}}

\* Rows with two different signal IDs, the all-zeros and the null signal ID,
\* and a row on which the predicate is false.
SequenceRows ==
    {DataRow(1, 1, 1, 1, 0), DataRow(2, 2, 2, 1, 0), DataRow(0, 3, 3, 1, 0),
     DataRow(Null, 4, 4, 1, 0), DataRow(3, 5, 5, 0, 0)}

InitSequence ==
    Constructed(Texts(SequenceStatements, MaxStmts),
                DataSets(SequenceRows, MaxRows))

SpecSequence == InitSequence /\ [][NextSequence]_vars

\* The step is an Evaluate call that parses the text and walks all of it.
EvaluatesTheText ==
    /\ lastCall' = "Evaluate"
    /\ m_dataSet # "nullptr" /\ ~parsed
    /\ lastError' \notin WalkErrors

\* The text with its identifier statements moved in front of its FILTER
\* statements, each kind in textual order.
IdentifiersFirst ==
    SelectSeq(filterExpression, IsIdentifierStatement)
       \o SelectSeq(filterExpression, IsFilterStatement)

\* C22: in the results of one Evaluate the contributions of the identifier
\* statements, in textual order, come first and those of the FILTER
\* statements, in textual order, follow, however the two kinds are
\* interleaved in the text: the results are those of the text with the
\* identifier statements moved to the front, and a signal ID that an
\* identifier statement names is not contributed again by a FILTER statement
\* written before it.
C22_IdentifiersBeforeFilters ==
    [][EvaluatesTheText =>
          /\ IsPrefix(IdentifiersOnly.ids, m_filteredSignalIDs')
          /\ IsPrefix(IdentifiersOnly.rows, m_filteredRows')
          /\ \A k \in DOMAIN m_filteredSignalIDs' :
                k > Len(IdentifiersOnly.ids) =>
                   m_filteredSignalIDs'[k] \notin IdentifiersOnly.idset
          /\ \E q \in EvaluateOutcomes(Cleared, IdentifiersFirst) :
                /\ m_filteredSignalIDs' = q.ids
                /\ m_filteredSignalIDSet' = q.idset
                /\ m_filteredRows' = q.rows
                /\ lastError' = q.error]_vars

\* The GUID statement is written after the FILTER statement and names the
\* signal ID of the second row: its signal ID and row come first, and the
\* FILTER statement contributed the first row only.
C22_Witness ==
    /\ lastCall = "Evaluate" /\ lastError = "none"
    /\ m_trackFilteredRows
    /\ Len(filterExpression) = 2
    /\ IsFilterStatement(filterExpression[1])
    /\ filterExpression[1].top = NoTopLimit
    /\ filterExpression[2] = IdentifierStatement("GUID_LITERAL", 2)
    /\ ActiveTable.rows = <<DataRow(1, 1, 1, 1, 0), DataRow(2, 2, 2, 1, 0)>>
    /\ m_filteredSignalIDs = <<2, 1>>
    /\ m_filteredRows = <<RowRef("ActiveMeasurements", 2),
                          RowRef("ActiveMeasurements", 1)>>


\* The rows of a FILTER statement's table that bring a new signal ID when
\* the signal IDs in claimed are taken: not null, predicate true, a signal
\* ID that is not null, not all-zeros and not claimed, and no earlier row
\* on which the predicate is true carries the same signal ID.
RowsWithNewSignalID(stmt, claimed) ==
    LET rows == dataSet[stmt.table].rows
        Matches(i) ==
            /\ ~rows[i].nil
            /\ ValueAsBoolean(EvaluateExpression(BuildExpression(stmt.where),
                                                 rows[i]))
    IN  {i \in DOMAIN rows :
            /\ Matches(i)
            /\ HasValue(rows[i].SignalID)
            /\ rows[i].SignalID # EmptyGuid
            /\ rows[i].SignalID \notin claimed
            /\ \A j \in 1..(i - 1) :
                  Matches(j) => rows[j].SignalID # rows[i].SignalID}

\* The elements of a set of numbers in increasing order.
RECURSIVE Ascending(_)
Ascending(S) ==
    IF S = {} THEN <<>>
    ELSE LET least == CHOOSE i \in S : \A j \in S : i <= j
         IN  <<least>> \o Ascending(S \ {least})

\* What the claim lets a statement contribute: the first N rows that bring
\* a new signal ID under TOP N, all of them without TOP.
ExpectedMatchedRows(stmt, claimed) ==
    LET new == Ascending(RowsWithNewSignalID(stmt, claimed))
    IN  IF stmt.top > -1 /\ Len(new) > stmt.top
        THEN SubSeq(new, 1, stmt.top)
        ELSE new

\* The expected matched rows of statement x and of those after it, as row
\* pointers, when the signal IDs in claimed are taken before statement x.
RECURSIVE ExpectedRowsFrom(_, _)
ExpectedRowsFrom(x, claimed) ==
    IF x > Len(FilterStatements) THEN <<>>
    ELSE LET stmt == FilterStatements[x]
             matched == ExpectedMatchedRows(stmt, claimed)
             rows == dataSet[stmt.table].rows
         IN  [k \in DOMAIN matched |-> RowRef(stmt.table, matched[k])]
                \o ExpectedRowsFrom(
                      x + 1,
                      claimed \cup {rows[matched[k]].SignalID :
                                       k \in DOMAIN matched})

\* C23: with signal-ID tracking on, a row whose predicate is true but whose
\* signal ID is null, all-zeros, or already contributed by an earlier row
\* or by another statement of the same Evaluate is left out and does not
\* count toward TOP: every FILTER statement contributes the first N rows
\* that bring a new signal ID, or all such rows when there are fewer than N
\* or no TOP.
C23_TopCountsNewSignalIDsOnly ==
    [][(EvaluatesTheText /\ m_trackFilteredSignalIDs /\ lastError' = "none") =>
          LET expected == ExpectedRowsFrom(1, IdentifiersOnly.idset)
          IN  /\ m_filteredSignalIDs' =
                    IdentifiersOnly.ids
                       \o [k \in DOMAIN expected |-> SignalIDOf(expected[k])]
              /\ m_filteredSignalIDSet' = Range(m_filteredSignalIDs')
              /\ m_filteredRows' =
                    IF m_trackFilteredRows
                    THEN IdentifiersOnly.rows \o expected
                    ELSE <<>>]_vars

\* A TOP 1 statement after a GUID statement that claimed the first row's
\* signal ID: the first row did not count and the second row was taken.
C23_Witness ==
    /\ lastCall = "Evaluate" /\ lastError = "none"
    /\ m_trackFilteredSignalIDs
    /\ Len(filterExpression) = 2
    /\ filterExpression[1] = IdentifierStatement("GUID_LITERAL", 1)
    /\ IsFilterStatement(filterExpression[2])
    /\ filterExpression[2].top = 1
    /\ ActiveTable.rows = <<DataRow(1, 1, 1, 1, 0), DataRow(2, 2, 2, 1, 0)>>
    /\ Len(scanned) = 2
    /\ m_filteredSignalIDs = <<1, 2>>

====
